---- MODULE Spec2Model ----
(***************************************************************************)
(* Model of pytranscoder/media.py: the track descriptors (AudioTrack,      *)
(* SubtitleTrack), the probe parser (MediaInfo.parse_details), the stream  *)
(* mapper (MediaInfo.ffmpeg_streams) and the predicate evaluator           *)
(* (MediaInfo.eval_numeric).                                               *)
(*                                                                         *)
(* Python values are represented as follows.                               *)
(*   str            a TLA+ string, or (where the code indexes, splits or   *)
(*                  converts it) a sequence of one-character strings       *)
(*   None           the string None for an optional str, the one-element   *)
(*                  list NoneList for an optional list, the record         *)
(*                  NoneDict for an optional dict                          *)
(*   list           a sequence                                             *)
(*   object         a record of its instance attributes (its __dict__)     *)
(*   float a/b      the record [num |-> a, den |-> b]                      *)
(*   return v       [kind |-> "return", val |-> v, out |-> printed lines]  *)
(*   raise E        [kind |-> "raise",  val |-> "E", out |-> printed lines]*)
(***************************************************************************)
EXTENDS Integers, Sequences, FiniteSets, TLC

VARIABLES
    disk,      \* size in bytes of the file at Path (read by os.path.getsize)
    output,    \* the probe text handed to parse_details: a sequence of lines
    minfo,     \* the MediaInfo object under use
    profile,   \* the values the Profile getters return
    verbose,   \* pytranscoder.verbose
    call,      \* the last call made: its name and arguments
    result     \* what the last call returned, raised and printed

vars == <<disk, output, minfo, profile, verbose, call, result>>

None == "None"
NoneList == <<None>>
NoneDict == [none |-> TRUE]

Return(v, printed) == [kind |-> "return", val |-> v, out |-> printed]
Raise(e, printed) == [kind |-> "raise", val |-> e, out |-> printed]

NoCall == [op |-> "none"]
NoProfile == [excl_audio |-> NoneList, excl_subtitle |-> NoneList,
              incl_audio |-> <<>>, incl_subtitle |-> <<>>,
              defl_audio |-> None, defl_subtitle |-> None]

\* x in lst, for a list lst
In(x, lst) == \E k \in 1..Len(lst) : lst[k] = x

(***************************************************************************)
(* Track descriptors                                                       *)
(***************************************************************************)

AudioTrack(adict) ==
    [track |-> adict.stream, lang |-> adict.lang,
     format |-> adict.format, default |-> adict.default]

SubtitleTrack(sdict) == [track |-> sdict.stream, lang |-> sdict.lang]

track_id(s) == s.track

language(s) == s.lang

is_default(s) == s.default = "default"

\* the depth at which the interpreter gives up on a recursion
RecursionLimit == 4

RECURSIVE codec_at(_, _)
codec_at(s, depth) ==
    IF depth >= RecursionLimit
    THEN Raise("RecursionError", <<>>)
    ELSE codec_at(s, depth + 1)

\* the property's body is `return self.codec`: it reads itself again
codec(s) == codec_at(s, 0)

(***************************************************************************)
(* MediaInfo                                                               *)
(***************************************************************************)

MediaInfo(info) ==
    IF info = NoneDict
    THEN [valid |-> FALSE]
    ELSE [valid |-> TRUE, path |-> info.path, vcodec |-> info.vcodec,
          stream |-> info.stream, res_height |-> info.res_height,
          res_width |-> info.res_width, runtime |-> info.runtime,
          filesize_mb |-> info.filesize_mb, fps |-> info.fps,
          colorspace |-> info.colorspace, audio |-> info.audio,
          subtitle |-> info.subtitle]

\* self.<name> on an object that may lack the attribute
HasAttr(self, name) == name \in DOMAIN self

(***************************************************************************)
(* Stream mapper                                                           *)
(***************************************************************************)

MapToken(s) == <<"-map", "0:" \o track_id(s)>>

DispositionToken(i) == <<"-disposition:a:" \o ToString(i), "default">>

NoDefaultWarning == <<"Warning: A default stream will be removed but no default language specified to replace it">>

\* the loop of lines 126-129 from position i (1-based here, i - 1 in the code)
RECURSIVE ReassignLoop(_, _, _)
ReassignLoop(mapped, defl, i) ==
    IF i > Len(mapped) THEN <<>>
    ELSE (IF mapped[i].lang = defl THEN DispositionToken(i - 1) ELSE <<>>)
         \o ReassignLoop(mapped, defl, i + 1)

\* the loop of lines 102-120 from stream k; st = [seq_list, mapped, default_reassign]
RECURSIVE AudioLoop(_, _, _, _, _)
AudioLoop(streams, excludes, includes, k, st) ==
    IF k > Len(streams) THEN st
    ELSE LET s == streams[k]
             stream_lang == s.lang
         IN  IF includes # NoneList /\ ~In(stream_lang, includes)
             THEN AudioLoop(streams, excludes, includes, k + 1,
                     [st EXCEPT !.default_reassign = @ \/ is_default(s)])
             ELSE IF In(stream_lang, excludes)
             THEN AudioLoop(streams, excludes, includes, k + 1,
                     [st EXCEPT !.default_reassign = @ \/ is_default(s)])
             ELSE AudioLoop(streams, excludes, includes, k + 1,
                     [st EXCEPT !.mapped = Append(@, s),
                                !.seq_list = @ \o MapToken(s)])

_map_audio_streams(streams, excludes0, includes0, defl) ==
    LET excludes == IF excludes0 = NoneList THEN <<>> ELSE excludes0
        includes == IF Len(includes0) = 0 THEN NoneList ELSE includes0
        st == AudioLoop(streams, excludes, includes, 1,
                 [seq_list |-> <<>>, mapped |-> <<>>, default_reassign |-> FALSE])
    IN  IF st.default_reassign
        THEN IF defl = None
             THEN Return(st.seq_list, NoDefaultWarning)
             ELSE Return(st.seq_list \o ReassignLoop(st.mapped, defl, 1), <<>>)
        ELSE Return(st.seq_list, <<>>)

\* the loop of lines 139-153 from stream k
RECURSIVE SubtitleLoop(_, _, _, _, _)
SubtitleLoop(streams, excludes, includes, k, seq_list) ==
    IF k > Len(streams) THEN seq_list
    ELSE LET s == streams[k]
             stream_lang == s.lang
         IN  IF includes # NoneList /\ ~In(stream_lang, includes)
             THEN SubtitleLoop(streams, excludes, includes, k + 1, seq_list)
             ELSE IF In(stream_lang, excludes)
             THEN SubtitleLoop(streams, excludes, includes, k + 1, seq_list)
             ELSE SubtitleLoop(streams, excludes, includes, k + 1,
                     seq_list \o MapToken(s))

\* mutant: the inclusion list is not consulted
_map_subtitle_streams_no_includes(streams, excludes0, includes0, defl) ==
    LET excludes == IF excludes0 = NoneList THEN <<>> ELSE excludes0
    IN  Return(SubtitleLoop(streams, excludes, NoneList, 1, <<>>), <<>>)

_map_subtitle_streams(streams, excludes0, includes0, defl) ==
    LET excludes == IF excludes0 = NoneList THEN <<>> ELSE excludes0
        includes == IF Len(includes0) = 0 THEN NoneList ELSE includes0
    IN  Return(SubtitleLoop(streams, excludes, includes, 1, <<>>), <<>>)

\* mutant: the shortcut is decided on the audio lists alone
ffmpeg_streams_audio_only(self, p) ==
    LET excl_audio == IF p.excl_audio = NoneList THEN <<>> ELSE p.excl_audio
        excl_subtitle == IF p.excl_subtitle = NoneList THEN <<>> ELSE p.excl_subtitle
    IN  IF Len(p.incl_audio) = 0 /\ Len(excl_audio) = 0
        THEN Return(<<"-map", "0">>, <<>>)
        ELSE IF ~HasAttr(self, "stream")
        THEN Raise("AttributeError", <<>>)
        ELSE Return(<<"-map", "0:" \o self.stream>>
                        \o _map_audio_streams(self.audio, excl_audio,
                               p.incl_audio, p.defl_audio).val
                        \o _map_subtitle_streams(self.subtitle, excl_subtitle,
                               p.incl_subtitle, p.defl_subtitle).val,
                    <<>>)

ffmpeg_streams(self, p) ==
    LET excl_audio == IF p.excl_audio = NoneList THEN <<>> ELSE p.excl_audio
        excl_subtitle == IF p.excl_subtitle = NoneList THEN <<>> ELSE p.excl_subtitle
        incl_audio == p.incl_audio
        incl_subtitle == p.incl_subtitle
    IN  IF Len(incl_audio) = 0 /\ Len(excl_audio) = 0
           /\ Len(incl_subtitle) = 0 /\ Len(excl_subtitle) = 0
        THEN Return(<<"-map", "0">>, <<>>)
        ELSE IF ~HasAttr(self, "stream")
        THEN Raise("AttributeError", <<>>)
        ELSE LET audio_streams == _map_audio_streams(self.audio, excl_audio,
                                      incl_audio, p.defl_audio)
                 subtitle_streams == _map_subtitle_streams(self.subtitle,
                                      excl_subtitle, incl_subtitle, p.defl_subtitle)
             IN  Return(<<"-map", "0:" \o self.stream>> \o audio_streams.val
                            \o subtitle_streams.val,
                        audio_streams.out \o subtitle_streams.out)

(***************************************************************************)
(* Stream mapper: inputs and specification                                 *)
(***************************************************************************)

MaxAudio == 3
MaxSubtitle == 1

Langs == {"eng", "spa"}

\* all lists over S of length at most n
ListsUpTo(S, n) == UNION {[1..k -> S] : k \in 0..n}

\* the audio tracks AudioTrack() builds; stream k of the container is audio[k]
AudioLists ==
    {[k \in 1..Len(l) |->
         AudioTrack([stream |-> ToString(k), lang |-> l[k][1],
                     format |-> "aac", default |-> l[k][2]])] :
     l \in ListsUpTo(Langs \X {None, "default"}, MaxAudio)}

SubtitleLists(first) ==
    {[k \in 1..Len(l) |->
         SubtitleTrack([stream |-> ToString(first + k), lang |-> l[k]])] :
     l \in ListsUpTo(Langs, MaxSubtitle)}

MapInfo(audio, subtitle) ==
    MediaInfo([path |-> "a.mkv", vcodec |-> "h264", stream |-> "0",
               res_height |-> 1080, res_width |-> 1920, runtime |-> 1815,
               filesize_mb |-> [num |-> 0, den |-> 1], fps |-> 23,
               colorspace |-> "yuv420p", audio |-> audio, subtitle |-> subtitle])

MapInfos ==
    {MediaInfo(NoneDict)} \cup
    UNION {{MapInfo(a, s) : s \in SubtitleLists(Len(a))} : a \in AudioLists}

AudioConfigs ==
    [incl_audio : {<<>>, <<"eng">>, <<"eng", "spa">>},
     excl_audio : {NoneList, <<>>, <<"eng">>},
     defl_audio : {None, "eng", "spa"}]

SubtitleConfigs ==
    {[incl_subtitle |-> <<>>, excl_subtitle |-> NoneList, defl_subtitle |-> None],
     [incl_subtitle |-> <<>>, excl_subtitle |-> <<>>, defl_subtitle |-> "eng"],
     [incl_subtitle |-> <<"eng">>, excl_subtitle |-> NoneList, defl_subtitle |-> None],
     [incl_subtitle |-> <<>>, excl_subtitle |-> <<"eng", "spa">>, defl_subtitle |-> None],
     [incl_subtitle |-> <<"eng">>, excl_subtitle |-> <<"eng">>, defl_subtitle |-> "eng"]}

Profiles ==
    {[excl_audio |-> a.excl_audio, excl_subtitle |-> s.excl_subtitle,
      incl_audio |-> a.incl_audio, incl_subtitle |-> s.incl_subtitle,
      defl_audio |-> a.defl_audio, defl_subtitle |-> s.defl_subtitle] :
     a \in AudioConfigs, s \in SubtitleConfigs}

InitMap ==
    /\ disk = 0
    /\ output = <<>>
    /\ minfo \in MapInfos
    /\ profile \in Profiles
    /\ verbose = FALSE
    /\ call = NoCall
    /\ result = Return(None, <<>>)

FfmpegStreams ==
    /\ call' = [op |-> "ffmpeg_streams"]
    /\ result' = ffmpeg_streams(minfo, profile)
    /\ UNCHANGED <<disk, output, minfo, profile, verbose>>

NextMap == FfmpegStreams

SpecMap == InitMap /\ [][NextMap]_vars

(***************************************************************************)
(* Stream mapper: properties                                               *)
(***************************************************************************)

\* a list the profile leaves out counts as empty
Listed(lst) == IF lst = NoneList THEN <<>> ELSE lst

AllListsEmpty(p) ==
    /\ Len(p.incl_audio) = 0 /\ Len(Listed(p.excl_audio)) = 0
    /\ Len(p.incl_subtitle) = 0 /\ Len(Listed(p.excl_subtitle)) = 0

\* the per-track rule: dropped when an inclusion list is configured and lacks
\* the language, else dropped when the exclusion list has it, else kept
IsKept(s, incl, excl) ==
    /\ Len(incl) = 0 \/ In(s.lang, incl)
    /\ ~In(s.lang, Listed(excl))

KeptOf(streams, incl, excl) ==
    SelectSeq(streams, LAMBDA s : IsKept(s, incl, excl))

KeptAudio == KeptOf(minfo.audio, profile.incl_audio, profile.excl_audio)
KeptSubtitle == KeptOf(minfo.subtitle, profile.incl_subtitle, profile.excl_subtitle)

\* ('-map', '0:<index>') for each track of a list, in order
PairsOf(tracks) ==
    [p \in 1..(2 * Len(tracks)) |->
        IF p % 2 = 1 THEN "-map" ELSE "0:" \o tracks[p \div 2].track]

HasPair(r, flag, value) ==
    \E p \in 1..(Len(r) - 1) : r[p] = flag /\ r[p + 1] = value

DispositionFlags(n) == {"-disposition:a:" \o ToString(i) : i \in 0..(n - 1)}

\* positions of r holding a disposition-override pair
DispositionPairs(r) ==
    {p \in 1..(Len(r) - 1) :
        r[p] \in DispositionFlags(Len(r)) /\ r[p + 1] = "default"}

Mapped == call.op = "ffmpeg_streams" /\ minfo.valid /\ ~AllListsEmpty(profile)

\* C1: a track whose language is in both the inclusion and the exclusion list
\* of its type is kept: its pair ('-map', '0:<index>') is in the result.
C1_BothListsKept ==
    Mapped =>
        /\ result.kind = "return"
        /\ \A k \in 1..Len(minfo.audio) :
              In(minfo.audio[k].lang, profile.incl_audio)
              /\ In(minfo.audio[k].lang, Listed(profile.excl_audio))
              => HasPair(result.val, "-map", "0:" \o minfo.audio[k].track)
        /\ \A k \in 1..Len(minfo.subtitle) :
              In(minfo.subtitle[k].lang, profile.incl_subtitle)
              /\ In(minfo.subtitle[k].lang, Listed(profile.excl_subtitle))
              => HasPair(result.val, "-map", "0:" \o minfo.subtitle[k].track)

DroppedDefault ==
    \E k \in 1..Len(minfo.audio) :
        /\ is_default(minfo.audio[k])
        /\ ~IsKept(minfo.audio[k], profile.incl_audio, profile.excl_audio)

FallbackKept ==
    /\ profile.defl_audio # None
    /\ \E i \in 1..Len(KeptAudio) : KeptAudio[i].lang = profile.defl_audio

FirstFallback ==
    CHOOSE i \in 1..Len(KeptAudio) :
        /\ KeptAudio[i].lang = profile.defl_audio
        /\ \A j \in 1..(i - 1) : KeptAudio[j].lang # profile.defl_audio

\* C2: when a default audio track is dropped and the default-audio language is
\* the language of one or several kept audio tracks, the result holds exactly
\* one pair ('-disposition:a:<i>', 'default'), <i> being the 0-based position
\* among the kept audio tracks of the first kept track with that language.
C2_OneDispositionOverride ==
    Mapped /\ DroppedDefault /\ FallbackKept =>
        /\ result.kind = "return"
        /\ Cardinality(DispositionPairs(result.val)) = 1
        /\ HasPair(result.val,
                   "-disposition:a:" \o ToString(FirstFallback - 1), "default")

\* C3: with the four lists all empty (an exclusion list left out counting as
\* empty) ffmpeg_streams returns exactly ['-map', '0'], whatever the tracks and
\* the default languages; with one of them non-empty it returns a sequence
\* that begins with ('-map', '0:<video stream index>') instead.
C3_ShortcutIffAllEmpty ==
    call.op = "ffmpeg_streams" =>
        /\ AllListsEmpty(profile) =>
              result.kind = "return" /\ result.val = <<"-map", "0">>
        /\ ~AllListsEmpty(profile) /\ minfo.valid =>
              /\ result.kind = "return"
              /\ result.val # <<"-map", "0">>
              /\ Len(result.val) >= 2
              /\ SubSeq(result.val, 1, 2) = <<"-map", "0:" \o minfo.stream>>

C3_Witness ==
    /\ call.op = "ffmpeg_streams" /\ minfo.valid
    /\ Len(minfo.audio) = 2 /\ Len(minfo.subtitle) = 1
    /\ profile.defl_audio = "eng" /\ profile.defl_subtitle = "eng"
    /\ profile.excl_audio = NoneList /\ profile.excl_subtitle = <<>>
    /\ AllListsEmpty(profile)
    /\ result.val = <<"-map", "0">>

DigitChars == <<"0", "1", "2", "3", "4", "5", "6", "7", "8", "9">>

IsDigit(c) == In(c, DigitChars)

DigitValue(c) == (CHOOSE i \in 1..10 : DigitChars[i] = c) - 1

\* str.isnumeric(), on the characters the model draws from
isnumeric(v) == Len(v) > 0 /\ \A k \in 1..Len(v) : IsDigit(v[k])

RECURSIVE DigitsValue(_, _)
DigitsValue(v, acc) ==
    IF Len(v) = 0 THEN acc
    ELSE DigitsValue(Tail(v), acc * 10 + DigitValue(Head(v)))

\* int(v): the number a run of digits denotes; anything else is a ValueError
int(v) ==
    IF isnumeric(v) THEN Return(DigitsValue(v, 0), <<>>)
    ELSE Raise("ValueError", <<>>)

RECURSIVE str(_)
str(n) ==
    IF n < 10 THEN <<DigitChars[n + 1]>>
    ELSE Append(str(n \div 10), DigitChars[(n % 10) + 1])

\* value.split(sep) from position k, cur being the part under construction
RECURSIVE SplitFrom(_, _, _, _)
SplitFrom(v, sep, k, cur) ==
    IF k > Len(v) THEN <<cur>>
    ELSE IF v[k] = sep THEN <<cur>> \o SplitFrom(v, sep, k + 1, <<>>)
    ELSE SplitFrom(v, sep, k + 1, Append(cur, v[k]))

split(v, sep) == SplitFrom(v, sep, 1, <<>>)

IsLetter(c) == c \in {"a", "b", "h"}

(***************************************************************************)
(* eval(expr).  The text of expr is three or five pieces: operands the     *)
(* f-string fills in and the operators between them.  An operand reads as  *)
(* a number, as a name that nothing defines, or as no expression at all.   *)
(***************************************************************************)

Number(n, d) == [cls |-> "number", num |-> n, den |-> d]
Name == [cls |-> "name"]
Malformed == [cls |-> "malformed"]

\* how the parser reads operand text v: a decimal literal may not start with
\* a superfluous 0; letters and digits after a letter are an identifier
Operand(v) ==
    IF isnumeric(v)
    THEN IF Len(v) > 1 /\ v[1] = "0" /\ \E k \in 1..Len(v) : v[k] # "0"
         THEN Malformed
         ELSE Number(DigitsValue(v, 0), 1)
    ELSE IF Len(v) > 0 /\ IsLetter(v[1])
            /\ \A k \in 1..Len(v) : IsLetter(v[k]) \/ IsDigit(v[k])
    THEN Name
    ELSE Malformed

\* how f'{attr}' reads back: an int or a float as that number, a bool as the
\* name True or False (1 or 0), a codec name as an identifier
AttrOperand(pred, attr) ==
    CASE pred \in {"res_width", "res_height", "runtime", "fps"} -> Number(attr, 1)
      [] pred = "filesize_mb" -> Number(attr.num, attr.den)
      [] pred = "valid" -> Number(IF attr THEN 1 ELSE 0, 1)
      [] OTHER -> Name

Compare(a, op, b) ==
    CASE op = "<=" -> a.num * b.den <= b.num * a.den
      [] op = "<" -> a.num * b.den < b.num * a.den
      [] op = ">" -> a.num * b.den > b.num * a.den
      [] op = "==" -> a.num * b.den = b.num * a.den

\* a chain of comparisons is evaluated left to right and stops at the first
\* that is false; expr = <<operand, op, operand>> or <<operand, op, operand,
\* op, operand>>
eval(expr) ==
    IF \E k \in 1..Len(expr) : k % 2 = 1 /\ expr[k].cls = "malformed"
    THEN Raise("SyntaxError", <<>>)
    ELSE IF expr[1].cls = "name" \/ expr[3].cls = "name"
    THEN Raise("NameError", <<>>)
    ELSE IF ~Compare(expr[1], expr[2], expr[3])
    THEN Return(FALSE, <<>>)
    ELSE IF Len(expr) = 3
    THEN Return(TRUE, <<>>)
    ELSE IF expr[5].cls = "name"
    THEN Raise("NameError", <<>>)
    ELSE Return(Compare(expr[3], expr[4], expr[5]), <<>>)

\* lines 225-229
Evaluate(expr, pred, value, attr, verb) ==
    LET r == eval(expr)
    IN  IF r.kind = "raise" THEN r
        ELSE IF ~r.val
        THEN Return(FALSE, IF verb THEN <<<<"did not match", pred, value>>>> ELSE <<>>)
        ELSE Return(TRUE, <<>>)

\* mutant: the literal is taken as seconds already
seconds_unscaled(v) ==
    LET n == int(v)
    IN  IF n.kind = "raise" THEN n ELSE Return(str(n.val), <<>>)

\* str(int(v) * 60), the conversion applied to each literal of a runtime rule
seconds(v) ==
    LET n == int(v)
    IN  IF n.kind = "raise" THEN n ELSE Return(str(n.val * 60), <<>>)

eval_numeric(self, rulename, pred, value, verb) ==
    IF ~HasAttr(self, pred)
    THEN Raise("ValueError", <<<<"unknown attribute", rulename, pred>>>>)
    ELSE
    LET attr == self[pred] IN
    IF In("-", value)
    THEN LET parts == split(value, "-") IN
         IF Len(parts) # 2
         THEN Raise("ValueError", <<<<"bad range expression", rulename, value>>>>)
         ELSE IF pred = "runtime"
         THEN IF seconds(parts[1]).kind = "raise" THEN seconds(parts[1])
              ELSE IF seconds(parts[2]).kind = "raise" THEN seconds(parts[2])
              ELSE LET rangelow == seconds(parts[1]).val
                       rangehigh == seconds(parts[2]).val
                   IN  Evaluate(<<Operand(rangelow), "<=", AttrOperand(pred, attr),
                                  "<=", Operand(rangehigh)>>,
                                pred, value, attr, verb)
         ELSE Evaluate(<<Operand(parts[1]), "<=", AttrOperand(pred, attr),
                         "<=", Operand(parts[2])>>,
                       pred, value, attr, verb)
    ELSE IF isnumeric(value)
    THEN LET value2 == IF pred = "runtime" THEN seconds(value).val ELSE value
         IN  Evaluate(<<AttrOperand(pred, attr), "==", Operand(value2)>>,
                      pred, value2, attr, verb)
    ELSE IF Len(value) = 0
    THEN Raise("IndexError", <<>>)
    ELSE IF value[1] \in {"<", ">"}
    THEN LET op == value[1]
             value1 == Tail(value)
         IN  IF pred = "runtime"
             THEN IF seconds(value1).kind = "raise" THEN seconds(value1)
                  ELSE Evaluate(<<AttrOperand(pred, attr), op,
                                  Operand(seconds(value1).val)>>,
                                pred, seconds(value1).val, attr, verb)
             ELSE Evaluate(<<AttrOperand(pred, attr), op, Operand(value1)>>,
                           pred, value1, attr, verb)
    ELSE Return(FALSE, <<<<"valid value", rulename, value>>>>)

(***************************************************************************)
(* Predicate evaluator: inputs and specification                           *)
(***************************************************************************)

MaxOperandLen == 2

MiB == 1024 * 1024

OperandChars == {"0", "9", "a"}

Operands ==
    ListsUpTo(OperandChars, MaxOperandLen)
    \cup {<<"1">>, <<"1", "2", "0">>}

Values ==
    Operands
    \cup {lo \o <<"-">> \o hi : lo \in Operands, hi \in Operands}
    \cup {<<c>> \o x : c \in {"<", ">"}, x \in Operands}
    \cup {<<"9", "-", "9", "-", "9">>, <<"-", "-">>, <<"a", "<">>,
          <<"9", ">", "0">>, <<"=", "9">>, <<"9", "<", "a">>}

Preds == {"res_width", "res_height", "runtime", "fps", "filesize_mb",
          "valid", "vcodec", "bitrate"}

EvalInfo(runtime, fps, bytes) ==
    MediaInfo([path |-> "a.mkv", vcodec |-> "h264", stream |-> "0",
               res_height |-> 9, res_width |-> 90, runtime |-> runtime,
               filesize_mb |-> [num |-> bytes, den |-> MiB], fps |-> fps,
               colorspace |-> "yuv420p", audio |-> <<>>, subtitle |-> <<>>])

EvalInfos ==
    {MediaInfo(NoneDict),
     EvalInfo(6000, 9, 0), EvalInfo(8000, 90, 9 * MiB),
     EvalInfo(5400, 0, 3 * (MiB \div 2)), EvalInfo(540, 120, 90 * MiB)}

InitEval ==
    /\ disk = 0
    /\ output = <<>>
    /\ minfo \in EvalInfos
    /\ profile = NoProfile
    /\ verbose \in BOOLEAN
    /\ call = NoCall
    /\ result = Return(None, <<>>)

\* the caller (the profile selection) evaluates one predicate of a rule
EvalNumeric(rulename, pred, value) ==
    /\ call = NoCall
    /\ call' = [op |-> "eval_numeric", rulename |-> rulename,
                pred |-> pred, value |-> value]
    /\ result' = eval_numeric(minfo, rulename, pred, value, verbose)
    /\ UNCHANGED <<disk, output, minfo, profile, verbose>>

\* the caller takes the outcome and goes on to its next predicate or rule
EvalDone ==
    /\ call # NoCall
    /\ call' = NoCall
    /\ result' = Return(None, <<>>)
    /\ UNCHANGED <<disk, output, minfo, profile, verbose>>

NextEval ==
    \/ call = NoCall
       /\ \E pred \in Preds, value \in Values : EvalNumeric("rule", pred, value)
    \/ EvalDone

SpecEval == InitEval /\ [][NextEval]_vars

(***************************************************************************)
(* Predicate evaluator: properties                                         *)
(***************************************************************************)

\* the numeric and derived attributes of a MediaInfo
NumericAttributes == {"res_width", "res_height", "runtime", "fps", "filesize_mb"}

Evaluated == call.op = "eval_numeric"

\* C4: on a recognized attribute, a value expression of any length, length 0
\* included, that has no dash, is not purely numeric and does not start with
\* '<' or '>' makes eval_numeric return False, and nothing is raised.
C4_UnrecognizedValueIsFalse ==
    Evaluated /\ minfo.valid /\ call.pred \in NumericAttributes
    /\ ~In("-", call.value) /\ ~isnumeric(call.value)
    /\ (Len(call.value) = 0 \/ call.value[1] \notin {"<", ">"})
    => result.kind = "return" /\ result.val = FALSE

\* C5: on a MediaInfo an attribute name other than res_width, res_height,
\* runtime, fps and filesize_mb makes eval_numeric raise ValueError, whatever
\* the value expression: no comparison is evaluated and no boolean is
\* returned for it.
C5_UnknownAttributeRaises ==
    Evaluated /\ minfo.valid /\ call.pred \notin NumericAttributes
    => result.kind = "raise" /\ result.val = "ValueError"

\* the number a run of digits denotes, digit by digit from the right
RECURSIVE LiteralValue(_)
LiteralValue(v) ==
    IF Len(v) = 0 THEN 0
    ELSE 10 * LiteralValue(SubSeq(v, 1, Len(v) - 1)) + DigitValue(v[Len(v)])

\* a literal the expression can hold as it is written: no superfluous 0 first
PlainLiteral(v) ==
    isnumeric(v) /\ (Len(v) = 1 \/ v[1] # "0" \/ \A k \in 1..Len(v) : v[k] = "0")

\* literals are taken as written for every attribute but runtime, whose
\* literals are minutes and may be written with leading zeros
LiteralOf(pred, v) == IF pred = "runtime" THEN isnumeric(v) ELSE PlainLiteral(v)

ScaleOf(pred) == IF pred = "runtime" THEN 60 ELSE 1

\* the attribute's value as the fraction num / den
AttrNum(pred) == IF pred = "filesize_mb" THEN minfo[pred].num ELSE minfo[pred]
AttrDen(pred) == IF pred = "filesize_mb" THEN minfo[pred].den ELSE 1

Chars90to120 == <<"9", "0", "-", "1", "2", "0">>

\* C7: for runtime every literal of the value expression is multiplied by 60
\* before the comparison: 'L-H' matches iff L*60 <= runtime <= H*60, 'N' iff
\* runtime = N*60, '<N' iff runtime < N*60, '>N' iff runtime > N*60; for the
\* other attributes the literals are compared as written.  '90-120' matches a
\* runtime of 6000 and does not match a runtime of 8000.
C7_RuntimeLiteralsTimes60 ==
    Evaluated /\ minfo.valid /\ call.pred \in NumericAttributes =>
    LET v == call.value
        pred == call.pred
        f == ScaleOf(pred)
        n == AttrNum(pred)
        d == AttrDen(pred)
    IN  /\ \A k \in 1..Len(v) :
              LET low == SubSeq(v, 1, k - 1)
                  high == SubSeq(v, k + 1, Len(v))
              IN  v[k] = "-" /\ LiteralOf(pred, low) /\ LiteralOf(pred, high)
                  => /\ result.kind = "return"
                     /\ result.val = (/\ LiteralValue(low) * f * d <= n
                                      /\ n <= LiteralValue(high) * f * d)
        /\ LiteralOf(pred, v)
           => /\ result.kind = "return"
              /\ result.val = (n = LiteralValue(v) * f * d)
        /\ Len(v) > 1 /\ v[1] = "<" /\ LiteralOf(pred, Tail(v))
           => /\ result.kind = "return"
              /\ result.val = (n < LiteralValue(Tail(v)) * f * d)
        /\ Len(v) > 1 /\ v[1] = ">" /\ LiteralOf(pred, Tail(v))
           => /\ result.kind = "return"
              /\ result.val = (n > LiteralValue(Tail(v)) * f * d)
        /\ pred = "runtime" /\ v = Chars90to120 /\ minfo.runtime = 6000
           => result.kind = "return" /\ result.val = TRUE
        /\ pred = "runtime" /\ v = Chars90to120 /\ minfo.runtime = 8000
           => result.kind = "return" /\ result.val = FALSE

C7_Witness ==
    /\ Evaluated /\ minfo.valid
    /\ call.pred = "runtime" /\ call.value = Chars90to120
    /\ minfo.runtime = 6000
    /\ result.kind = "return" /\ result.val = TRUE

(***************************************************************************)
(* Probe parser.  The probe text is a sequence of lines and a line is a    *)
(* sequence of tokens, each the longest run of characters the patterns     *)
(* treat alike: a run of digits (\d+, kept as its characters), a word      *)
(* (\w+) or a piece of punctuation and literal text.                       *)
(***************************************************************************)

T(s) == [t |-> "text", s |-> s]
W(s) == [t |-> "word", s |-> s]
D(cs) == [t |-> "digits", s |-> cs]

NL == T("\n")

RECURSIVE Flatten(_)
Flatten(lines) ==
    IF Len(lines) = 0 THEN <<>>
    ELSE Head(lines) \o <<NL>> \o Flatten(Tail(lines))

\* the token at position i, or an empty piece of text past either end
At(t, i) == IF i \in 1..Len(t) THEN t[i] ELSE T("")

Is(tok, s) == tok.t = "text" /\ tok.s = s
IsDigits(tok) == tok.t = "digits"
IsWord(tok) == tok.t \in {"word", "digits"}
IsSpace(tok) == tok.t = "text" /\ tok.s \in {" ", "  ", "    "}
EndsWithSpace(tok) ==
    tok.t = "text" /\ tok.s \in {" ", "  ", "    ", ", ", ": Video: ", ": Audio: ",
                                 "Duration: "}
BeginsParenOrComma(tok) == tok.t = "text" /\ tok.s \in {"(", ", ", ","}
IsYuv(tok) == tok.t = "word" /\ tok.s \in {"yuv420p", "yuv444p"}
\* \.\d. : a dot and two more characters
IsFraction(tok) == tok.t = "text" /\ tok.s \in {".98", ".04", ".00"}

RECURSIVE Join(_)
Join(cs) == IF Len(cs) = 0 THEN "" ELSE Head(cs) \o Join(Tail(cs))

\* a group's text as a str
Text(tok) == IF tok.t = "digits" THEN Join(tok.s) ELSE tok.s

Max(S) == CHOOSE x \in S : \A y \in S : y <= x

NoMatch == <<>>

\* .*Duration: (\d+):(\d+):(\d+) with DOTALL: the last place it matches
DurationAt(t, i) ==
    /\ Is(t[i], "Duration: ") /\ IsDigits(At(t, i + 1))
    /\ Is(At(t, i + 2), ":") /\ IsDigits(At(t, i + 3))
    /\ Is(At(t, i + 4), ":") /\ IsDigits(At(t, i + 5))

video_dur(t) ==
    LET P == {i \in 1..Len(t) : DurationAt(t, i)}
    IN  IF P = {} THEN NoMatch
        ELSE LET i == Max(P) IN <<t[i + 1].s, t[i + 3].s, t[i + 5].s>>

\* Stream #0:(\d+)(?:\(\w+\))?: <kind> (\w+) at i: the position of the word, or 0
StreamHead(t, i, kind) ==
    IF ~(Is(At(t, i), "Stream #0:") /\ IsDigits(At(t, i + 1))) THEN 0
    ELSE IF /\ Is(At(t, i + 2), "(") /\ IsWord(At(t, i + 3)) /\ Is(At(t, i + 4), ")")
            /\ Is(At(t, i + 5), kind) /\ IsWord(At(t, i + 6))
    THEN i + 6
    ELSE IF Is(At(t, i + 2), kind) /\ IsWord(At(t, i + 3))
    THEN i + 3
    ELSE 0

\* .* (\d+)(\.\d.)? fps from position lo on
FpsAt(t, lo) ==
    {m \in lo..Len(t) :
        /\ EndsWithSpace(t[m]) /\ IsDigits(At(t, m + 1))
        /\ \/ Is(At(t, m + 2), " fps")
           \/ IsFraction(At(t, m + 2)) /\ Is(At(t, m + 3), " fps")}

\* .* (\d+)x(\d+) from position lo on, with the rest of the pattern after it
ResolutionAt(t, lo) ==
    {k \in lo..Len(t) :
        /\ EndsWithSpace(t[k]) /\ IsDigits(At(t, k + 1))
        /\ Is(At(t, k + 2), "x") /\ IsDigits(At(t, k + 3))
        /\ FpsAt(t, k + 4) # {}}

\* mutant: any pixel format is taken, not only the yuv ones
ColorspaceAt_any(t, lo) ==
    {j \in lo..Len(t) :
        /\ Is(t[j], ", ") /\ IsWord(At(t, j + 1))
        /\ BeginsParenOrComma(At(t, j + 2))
        /\ ResolutionAt(t, j + 2) # {}}

\* .*, (yuv\w+)[(,] from position lo on, with the rest of the pattern after it
ColorspaceAt(t, lo) ==
    {j \in lo..Len(t) :
        /\ Is(t[j], ", ") /\ IsYuv(At(t, j + 1))
        /\ BeginsParenOrComma(At(t, j + 2))
        /\ ResolutionAt(t, j + 2) # {}}

\* each .* is greedy: the last position from which the rest still matches
video_info(t) ==
    LET P == {i \in 1..Len(t) :
                 /\ StreamHead(t, i, ": Video: ") # 0
                 /\ ColorspaceAt(t, StreamHead(t, i, ": Video: ") + 1) # {}}
    IN  IF P = {} THEN NoMatch
        ELSE LET i == Max(P)
                 c == StreamHead(t, i, ": Video: ")
                 j == Max(ColorspaceAt(t, c + 1))
                 k == Max(ResolutionAt(t, j + 2))
                 m == Max(FpsAt(t, k + 4))
             IN  <<Text(t[i + 1]), t[c].s, t[j + 1].s, t[k + 1].s, t[k + 3].s,
                   t[m + 1].s>>

\* the optional group (\((?P<lang>\w+)\))? of a stream line
LangGroup(line) ==
    IF Is(At(line, 4), "(") /\ IsWord(At(line, 5)) /\ Is(At(line, 6), ")")
    THEN Text(line[5]) ELSE None

\* audio_info on one line: the group dict, or NoMatch
audio_info(line) ==
    LET c == StreamHead(line, 2, ": Audio: ")
    IN  IF ~IsSpace(At(line, 1)) \/ c = 0 THEN NoMatch
        ELSE <<[stream |-> Text(line[3]), lang |-> LangGroup(line),
                format |-> Text(line[c]),
                default |-> IF Len(line) > c /\ Is(line[Len(line)], "(default)")
                            THEN "(default)" ELSE None]>>

\* subtitle_info on one line
subtitle_info(line) ==
    LET hasTag == Is(At(line, 4), "(") /\ IsWord(At(line, 5)) /\ Is(At(line, 6), ")")
        c == IF hasTag THEN 7 ELSE 4
    IN  IF /\ IsSpace(At(line, 1)) /\ Is(At(line, 2), "Stream #0:")
           /\ IsDigits(At(line, 3)) /\ Is(At(line, c), ": Subtitle:")
        THEN <<[stream |-> Text(line[3]), lang |-> LangGroup(line)]>>
        ELSE NoMatch

\* lines 243-248: finditer over the text, a track per match
RECURSIVE audio_tracks(_)
audio_tracks(lines) ==
    IF Len(lines) = 0 THEN <<>>
    ELSE LET found == audio_info(Head(lines))
         IN  (IF found = NoMatch THEN <<>>
              ELSE LET ainfo == found[1]
                   IN  <<AudioTrack([ainfo EXCEPT
                            !.lang = IF @ = None THEN "und" ELSE @])>>)
             \o audio_tracks(Tail(lines))

\* lines 250-255
RECURSIVE subtitle_tracks(_)
subtitle_tracks(lines) ==
    IF Len(lines) = 0 THEN <<>>
    ELSE LET found == subtitle_info(Head(lines))
         IN  (IF found = NoMatch THEN <<>>
              ELSE LET sinfo == found[1]
                   IN  <<SubtitleTrack([sinfo EXCEPT
                            !.lang = IF @ = None THEN "und" ELSE @])>>)
             \o subtitle_tracks(Tail(lines))

ParseFailed(path) == <<">>>> regex match on video stream data failed: ffmpeg -i", path>>

parse_details(path, out, size) ==
    LET text == Flatten(out)
        match1 == video_dur(text)
        match2 == video_info(text)
    IN  IF match1 = NoMatch
        THEN Return(MediaInfo(NoneDict), <<ParseFailed(path)>>)
        ELSE IF match2 = NoMatch
        THEN Return(MediaInfo(NoneDict), <<ParseFailed(path)>>)
        ELSE Return(
               MediaInfo(
                 [path |-> path, vcodec |-> match2[2], stream |-> match2[1],
                  res_width |-> int(match2[4]).val,
                  res_height |-> int(match2[5]).val,
                  runtime |-> int(match1[1]).val * 3600 + int(match1[2]).val * 60
                              + int(match1[3]).val,
                  filesize_mb |-> [num |-> size, den |-> 1024 * 1024],
                  fps |-> int(match2[6]).val,
                  colorspace |-> match2[3],
                  audio |-> audio_tracks(out),
                  subtitle |-> subtitle_tracks(out)]),
               <<<<"os.path.getsize", path>>>>)

(***************************************************************************)
(* Probe parser: inputs and specification                                  *)
(***************************************************************************)

MaxAudioLines == 2
MaxSubtitleLines == 1

Path == "a.mkv"

Indent == T("    ")

DurationLines ==
    [good |-> <<<<T("  "), T("Duration: "), D(<<"0", "0">>), T(":"), D(<<"3", "0">>),
                 T(":"), D(<<"1", "5">>), T(".04")>>>>,
     unknown |-> <<<<T("  "), T("Duration: "), W("N"), T("/"), W("A")>>>>,
     absent |-> <<>>]

VideoTail(pixfmt, fraction) ==
    <<T(": Video: "), W("h264"), T(" ("), W("High"), T(")"), T(", "), W(pixfmt),
      T("("), W("tv"), T(")"), T(", "), D(<<"1", "9", "2", "0">>), T("x"),
      D(<<"1", "0", "8", "0">>), T(", "), D(<<"2", "3">>), T(fraction), T(" fps")>>

VideoLines ==
    [good |-> <<<<Indent, T("Stream #0:"), D(<<"0">>)>> \o VideoTail("yuv420p", ".98")>>,
     tagged |-> <<<<Indent, T("Stream #0:"), D(<<"0">>), T("("), W("eng"), T(")")>>
                   \o VideoTail("yuv420p", ".98")>>,
     rgb |-> <<<<Indent, T("Stream #0:"), D(<<"0">>)>> \o VideoTail("gbrp", ".98")>>,
     longfraction |-> <<<<Indent, T("Stream #0:"), D(<<"0">>)>>
                         \o VideoTail("yuv420p", ".976")>>,
     absent |-> <<>>]

\* what a stream line says: its language tag, or None, and what ends the line
AudioShapes ==
    {<<"eng", "default">>, <<"spa", "plain">>, <<None, "plain">>,
     <<"spa", "default forced">>, <<"eng", "plain">>}

SubtitleShapes == {"eng", None}

LangTag(lang) == IF lang = None THEN <<>> ELSE <<T("("), W(lang), T(")")>>

AudioLine(index, shape) ==
    <<Indent, T("Stream #0:"), D(<<DigitChars[index + 1]>>)>> \o LangTag(shape[1])
    \o <<T(": Audio: "), W("aac"), T(", "), D(<<"4", "8", "0", "0", "0">>), T(" Hz")>>
    \o (CASE shape[2] = "plain" -> <<>>
          [] shape[2] = "default" -> <<T(" "), T("(default)")>>
          [] shape[2] = "default forced" ->
                <<T(" "), T("(default)"), T(" "), T("(forced)")>>)

SubtitleLine(index, lang) ==
    <<Indent, T("Stream #0:"), D(<<DigitChars[index + 1]>>)>> \o LangTag(lang)
    \o <<T(": Subtitle:"), T(" "), W("subrip")>>

\* the report of a file: duration, video stream 0, audio streams 1.., then
\* the subtitle streams
ProbeText(dur, video, audio, subtitle) ==
    DurationLines[dur] \o VideoLines[video]
    \o [k \in 1..Len(audio) |-> AudioLine(k, audio[k])]
    \o [k \in 1..Len(subtitle) |-> SubtitleLine(Len(audio) + k, subtitle[k])]

ProbeTexts ==
    {ProbeText(dur, video, audio, subtitle) :
        dur \in DOMAIN DurationLines, video \in DOMAIN VideoLines,
        audio \in ListsUpTo(AudioShapes, MaxAudioLines),
        subtitle \in ListsUpTo(SubtitleShapes, MaxSubtitleLines)}

InitParse ==
    /\ disk \in {0, 3 * (MiB \div 2)}
    /\ output \in ProbeTexts
    /\ minfo = NoneDict
    /\ profile = NoProfile
    /\ verbose = FALSE
    /\ call = NoCall
    /\ result = Return(None, <<>>)

ParseDetails ==
    /\ minfo = NoneDict
    /\ call' = [op |-> "parse_details", path |-> Path]
    /\ result' = parse_details(Path, output, disk)
    /\ minfo' = result'.val
    /\ UNCHANGED <<disk, output, profile, verbose>>

Parsed == minfo # NoneDict /\ minfo.valid

\* a caller reads audio[k].is_default
ReadIsDefault(k) ==
    /\ Parsed /\ k \in 1..Len(minfo.audio)
    /\ call' = [op |-> "is_default", k |-> k]
    /\ result' = Return(is_default(minfo.audio[k]), <<>>)
    /\ UNCHANGED <<disk, output, minfo, profile, verbose>>

\* a caller reads audio[k].codec
ReadCodec(k) ==
    /\ Parsed /\ k \in 1..Len(minfo.audio)
    /\ call' = [op |-> "codec", k |-> k]
    /\ result' = codec(minfo.audio[k])
    /\ UNCHANGED <<disk, output, minfo, profile, verbose>>

NextParse ==
    \/ ParseDetails
    \/ \E k \in 1..(MaxAudioLines + 1) : ReadIsDefault(k)
    \/ \E k \in 1..(MaxAudioLines + 1) : ReadCodec(k)

SpecParse == InitParse /\ [][NextParse]_vars

(***************************************************************************)
(* Probe parser: properties                                                *)
(***************************************************************************)

HasLine(lines) == \E l \in 1..Len(output) : In(output[l], lines)

\* the text holds a duration written HH:MM:SS
DurationFound == HasLine(DurationLines.good)

\* the text holds a video stream line with a yuv pixel format, a WxH
\* resolution and a frame rate with at most two decimals
VideoFound == HasLine(VideoLines.good \o VideoLines.tagged)

HasToken(line, s) == \E p \in 1..Len(line) : Is(line[p], s)

AudioLinesOf(lines) == SelectSeq(lines, LAMBDA line : HasToken(line, ": Audio: "))
SubtitleLinesOf(lines) == SelectSeq(lines, LAMBDA line : HasToken(line, ": Subtitle:"))

DataModel ==
    {"valid", "path", "vcodec", "stream", "res_height", "res_width", "runtime",
     "filesize_mb", "fps", "colorspace", "audio", "subtitle"}

\* C6: parse_details returns a MediaInfo with valid = false and no other
\* field when the text has no duration match or no video stream match,
\* without looking up the file size; when both match, the result has
\* valid = true and every field of the data model.
C6_InvalidOrComplete ==
    call.op = "parse_details" =>
        /\ result.kind = "return"
        /\ ~(DurationFound /\ VideoFound) =>
              /\ result.val = [valid |-> FALSE]
              /\ result.out = <<ParseFailed(call.path)>>
        /\ DurationFound /\ VideoFound =>
              /\ DOMAIN result.val = DataModel
              /\ result.val.valid
              /\ result.val.path = call.path
              /\ result.val.vcodec = "h264" /\ result.val.stream = "0"
              /\ result.val.colorspace = "yuv420p"
              /\ result.val.res_width = 1920 /\ result.val.res_height = 1080
              /\ result.val.runtime = 1815 /\ result.val.fps = 23
              /\ result.val.filesize_mb = [num |-> disk, den |-> MiB]
              /\ Len(result.val.audio) = Len(AudioLinesOf(output))
              /\ Len(result.val.subtitle) = Len(SubtitleLinesOf(output))
              /\ result.out = <<<<"os.path.getsize", call.path>>>>

\* a text with a duration and audio lines whose video line reports an rgb
\* pixel format
C6_Witness ==
    /\ call.op = "parse_details"
    /\ DurationFound /\ HasLine(VideoLines.rgb)
    /\ Len(AudioLinesOf(output)) = 2
    /\ result.val = [valid |-> FALSE]

\* C8: the AudioTrack parse_details makes of an audio stream line has
\* is_default true exactly when the line carries the marker '(default)'; for
\* two audio lines, eng with the marker and spa without, the first track has
\* is_default true and the second false.
C8_DefaultIffMarker ==
    call.op = "is_default" =>
        result.val = HasToken(AudioLinesOf(output)[call.k], "(default)")

\* C10: reading codec on an AudioTrack ends and returns the stored format
\* value, the one given as 'format' at construction.
C10_CodecReturnsFormat ==
    call.op = "codec" =>
        result.kind = "return" /\ result.val = minfo.audio[call.k].format

====
